---------------------------- MODULE Spec2Model ----------------------------
(***************************************************************************)
(* Model of the two authoring tools of the aptos-book repository:          *)
(*   scripts/convert_glossary.py  - the glossary converter                 *)
(*   scripts/improved_checker.py  - the document spell and grammar checker *)
(*                                                                         *)
(* Text is a sequence of characters.  A character is a one-character       *)
(* string, except the backtick, which the TLA+ lexer does not accept in a  *)
(* string literal and which is written BT.                                 *)
(***************************************************************************)
EXTENDS Naturals, Integers, Sequences, FiniteSets, TLC

LF == "\n"
CR == "\r"
BT == "BT"

(***************************************************************************)
(* Bounds of the model.                                                    *)
(***************************************************************************)
MaxLines == 4
MaxRuns == 2

(***************************************************************************)
(* Generic helpers on character sequences.                                 *)
(***************************************************************************)
Sub(t, a, b) == IF a > b THEN <<>> ELSE SubSeq(t, a, b)

At(t, i) == IF i >= 1 /\ i <= Len(t) THEN t[i] ELSE "EOF"

HasAt(t, i, w) == /\ i >= 1
                  /\ i + Len(w) - 1 <= Len(t)
                  /\ \A k \in 1..Len(w) : t[i + k - 1] = w[k]

\* The least element of a set of positions (0 when it is empty).
First(S) == IF S = {} THEN 0 ELSE CHOOSE x \in S : \A y \in S : x <= y

RECURSIVE Join(_, _)
Join(ls, sep) == IF Len(ls) = 0 THEN <<>>
                 ELSE IF Len(ls) = 1 THEN ls[1]
                 ELSE ls[1] \o sep \o Join(Tail(ls), sep)

RECURSIVE SeqsUpTo(_, _)
SeqsUpTo(S, k) == IF k = 0 THEN {<<>>}
                  ELSE LET shorter == SeqsUpTo(S, k - 1)
                       IN  shorter \cup {Append(s, x) : s \in shorter, x \in S}

(***************************************************************************)
(* GLOSSARY CONVERTER  (scripts/convert_glossary.py)                       *)
(***************************************************************************)

\* p.read_text(encoding='utf-8'): the file is opened in text mode with the
\* default newline=None, so "\r\n" and a lone "\r" are both read as "\n".
RECURSIVE ReadTextFrom(_, _)
ReadTextFrom(b, i) ==
    IF i > Len(b) THEN <<>>
    ELSE IF b[i] = CR
         THEN <<LF>> \o ReadTextFrom(b, IF At(b, i + 1) = LF THEN i + 2 ELSE i + 1)
         ELSE <<b[i]>> \o ReadTextFrom(b, i + 1)

ReadText(b) == ReadTextFrom(b, 1)

\* p.write_text(new_text, encoding='utf-8'): text mode with newline=None, so
\* every "\n" is written as os.linesep.
RECURSIVE WriteTextFrom(_, _, _)
WriteTextFrom(t, i, sep) ==
    IF i > Len(t) THEN <<>>
    ELSE (IF t[i] = LF THEN sep ELSE <<t[i]>>) \o WriteTextFrom(t, i + 1, sep)

WriteText(t, sep) == WriteTextFrom(t, 1, sep)

\* '^' under re.MULTILINE: the start of the string or just after a "\n".
AtLineStart(t, i) == i = 1 \/ At(t, i - 1) = LF

\* '.' (no re.DOTALL): any character but "\n".
Dot(c) == c # LF /\ c # "EOF"

\* The position of the "\n" of '\r?\n' tried at p (0 when it does not match).
NewlineAt(t, p) ==
    LET q == IF At(t, p) = CR THEN p + 1 ELSE p
    IN  IF At(t, q) = LF THEN q ELSE 0

\* '(.+)$' tried at p: greedy to the last character before the next "\n" or the
\* end of the string, where '$' matches (0 when there is no character to take).
RECURSIVE DefEnd(_, _)
DefEnd(t, p) == IF Dot(At(t, p)) THEN (IF Dot(At(t, p + 1)) THEN DefEnd(t, p + 1) ELSE p)
                ELSE 0

\* Mutant of TailMatch: the pattern without its ': ', '\*\*\r?\n(.+)$'.
TailMatch_NoColon(t, p) ==
    IF ~HasAt(t, p, <<"*", "*">>) THEN <<0, 0>>
    ELSE LET q == NewlineAt(t, p + 2)
         IN  IF q = 0 THEN <<0, 0>>
             ELSE IF DefEnd(t, q + 1) = 0 THEN <<0, 0>>
             ELSE <<q + 1, DefEnd(t, q + 1)>>

\* '\*\*\r?\n: (.+)$' tried at p, the part of the pattern after the term:
\* <<first position of the definition, last position of the definition>>.
TailMatch(t, p) ==
    IF ~HasAt(t, p, <<"*", "*">>) THEN <<0, 0>>
    ELSE LET q == NewlineAt(t, p + 2)
         IN  IF q = 0 \/ ~HasAt(t, q + 1, <<":", " ">>) THEN <<0, 0>>
             ELSE IF DefEnd(t, q + 3) = 0 THEN <<0, 0>>
             ELSE <<q + 3, DefEnd(t, q + 3)>>

\* '(.+?)' from position a: the shortest run of '.' characters ending at e >= a
\* after which the rest of the pattern matches (0 when there is none).
RECURSIVE TermEnd(_, _)
TermEnd(t, e) ==
    IF ~Dot(At(t, e)) THEN 0
    ELSE IF TailMatch(t, e + 1)[1] # 0 THEN e
    ELSE TermEnd(t, e + 1)

\* pattern.match at position i: the match as a record, or NoMatch.
NoMatch == [s |-> 0, ts |-> 0, te |-> 0, ds |-> 0, de |-> 0]

\* Mutant of MatchAt: the term stops at the first ** after the opening one,
\* as if the pattern were '^\*\*(.+?)\*\*.*\r?\n: (.+)$'.
RECURSIVE FirstClose(_, _)
FirstClose(t, p) == IF HasAt(t, p, <<"*", "*">>) \/ p > Len(t) THEN p ELSE FirstClose(t, p + 1)

MatchAt_FirstBold(t, i) ==
    IF ~(AtLineStart(t, i) /\ HasAt(t, i, <<"*", "*">>)) THEN NoMatch
    ELSE LET e == TermEnd(t, i + 2)
         IN  IF e = 0 THEN NoMatch
             ELSE [s |-> i, ts |-> i + 2, te |-> FirstClose(t, i + 3) - 1,
                   ds |-> TailMatch(t, e + 1)[1], de |-> TailMatch(t, e + 1)[2]]

MatchAt(t, i) ==
    IF ~(AtLineStart(t, i) /\ HasAt(t, i, <<"*", "*">>)) THEN NoMatch
    ELSE LET e == TermEnd(t, i + 2)
         IN  IF e = 0 THEN NoMatch
             ELSE [s |-> i, ts |-> i + 2, te |-> e,
                   ds |-> TailMatch(t, e + 1)[1], de |-> TailMatch(t, e + 1)[2]]

\* The leftmost match starting at or after pos.
RECURSIVE Search(_, _)
Search(t, pos) ==
    IF pos > Len(t) THEN NoMatch
    ELSE IF MatchAt(t, pos).s # 0 THEN MatchAt(t, pos)
    ELSE Search(t, pos + 1)

\* The non-overlapping matches of the pattern, left to right.
RECURSIVE Matches(_, _)
Matches(t, pos) ==
    LET m == Search(t, pos)
    IN  IF m.s = 0 THEN <<>> ELSE <<m>> \o Matches(t, m.de + 1)

\* Mutant of Expand: the template keeps the ': ' of the definition line.
Expand_KeepsColon(t, m) ==
    <<"#", "#", " ">> \o Sub(t, m.ts, m.te) \o <<LF>> \o Sub(t, m.ds - 2, m.de)

\* The replacement template r'## \1\n\2' expanded for match m.
Expand(t, m) == <<"#", "#", " ">> \o Sub(t, m.ts, m.te) \o <<LF>> \o Sub(t, m.ds, m.de)

RECURSIVE Rebuild(_, _, _)
Rebuild(t, ms, pos) ==
    IF Len(ms) = 0 THEN Sub(t, pos, Len(t))
    ELSE Sub(t, pos, ms[1].s - 1) \o Expand(t, ms[1]) \o Rebuild(t, Tail(ms), ms[1].de + 1)

\* pattern.subn(r'## \1\n\2', text): <<new text, number of substitutions>>.
Subn(t) == LET ms == Matches(t, 1) IN <<Rebuild(t, ms, 1), Len(ms)>>

\* -------------------------------------------------------------------------
\* The lines a glossary file is drawn from.
TermA    == <<"*", "*", "a", "*", "*">>
TermAB   == <<"*", "*", "a", "*", "*", " ", "*", "*", "b", "*", "*">>
DefD     == <<":", " ", "d">>
DefBold  == <<":", " ", "*", "*", "b", "*", "*">>
DefEmpty == <<":", " ">>

GlossaryLines == {TermA, TermAB, DefD, DefBold, DefEmpty}

LineEndings == {<<LF>>, <<CR, LF>>}

\* The files on disk: 1..MaxLines lines joined by one kind of line ending.
GlossaryFiles ==
    {Join(ls, eol) : ls \in (SeqsUpTo(GlossaryLines, MaxLines) \ {<<>>}), eol \in LineEndings}

(***************************************************************************)
(* The glossary format, stated on the lines of a text, independently of    *)
(* the regular expression: what the claims call a well-formed block.       *)
(***************************************************************************)
RECURSIVE SplitFrom(_, _, _)
SplitFrom(t, i, cur) ==
    IF i > Len(t) THEN <<cur>>
    ELSE IF t[i] = LF THEN <<cur>> \o SplitFrom(t, i + 1, <<>>)
    ELSE SplitFrom(t, i + 1, Append(cur, t[i]))

\* The lines of a text: the runs between its "\n" characters.
LinesOf(t) == SplitFrom(t, 1, <<>>)

\* A line that is exactly **T** with T not empty.
IsTermLine(l) == /\ Len(l) >= 5
                 /\ HasAt(l, 1, <<"*", "*">>)
                 /\ HasAt(l, Len(l) - 1, <<"*", "*">>)

\* A line ': D' with D not empty.
IsDefLine(l) == Len(l) >= 3 /\ HasAt(l, 1, <<":", " ">>)

TermOf(l) == Sub(l, 3, Len(l) - 2)
DefOf(l) == Sub(l, 3, Len(l))
Heading(term) == <<"#", "#", " ">> \o term

\* The indexes of the term lines of the well-formed blocks of lines L.
BlocksOf(L) == {k \in 1..(Len(L) - 1) : IsTermLine(L[k]) /\ IsDefLine(L[k + 1])}

\* The line that holds position i of text t.
LineNo(t, i) == 1 + Cardinality({k \in 1..(i - 1) : t[k] = LF})


(***************************************************************************)
(* DOCUMENT CHECKER  (scripts/improved_checker.py)                         *)
(***************************************************************************)

LowerSeq == <<"a", "b", "c", "d", "e", "f", "g", "h", "i", "j", "k", "l", "m", "n", "o", "p", "q", "r", "s", "t", "u", "v", "w", "x", "y", "z">>
UpperSeq == <<"A", "B", "C", "D", "E", "F", "G", "H", "I", "J", "K", "L", "M", "N", "O", "P", "Q", "R", "S", "T", "U", "V", "W", "X", "Y", "Z">>
DigitSeq == <<"0", "1", "2", "3", "4", "5", "6", "7", "8", "9">>

LowerSet == {LowerSeq[k] : k \in 1..Len(LowerSeq)}
UpperSet == {UpperSeq[k] : k \in 1..Len(UpperSeq)}
DigitSet == {DigitSeq[k] : k \in 1..Len(DigitSeq)}

\* [A-Za-z]
IsLetter(c) == c \in LowerSet \/ c \in UpperSet

\* \w
IsWordChar(c) == IsLetter(c) \/ c \in DigitSet \/ c = "_"

\* \s
IsSpace(c) == c \in {" ", LF, CR, "\t"}

\* \b at position i: between t[i-1] and t[i], one is a word character and the
\* other is not (the ends of the text count as not).
Boundary(t, i) == IsWordChar(At(t, i - 1)) # IsWordChar(At(t, i))

\* str.lower() and re.IGNORECASE, character by character.
LowerChar(c) == IF c \in UpperSet
                THEN LowerSeq[CHOOSE k \in 1..Len(UpperSeq) : UpperSeq[k] = c]
                ELSE c

Lower(t) == [k \in 1..Len(t) |-> LowerChar(t[k])]

\* The Python string of a run of one-character strings.
RECURSIVE Str(_)
Str(w) == IF Len(w) = 0 THEN "" ELSE Head(w) \o Str(Tail(w))

\* The literal w at position i, letter case ignored (w is lowercase).
HasAtCI(t, i, w) == /\ i >= 1
                    /\ i + Len(w) - 1 <= Len(t)
                    /\ \A k \in 1..Len(w) : LowerChar(t[i + k - 1]) = w[k]

\* The first position >= p where w stands in t (0 when there is none).
FindFrom(t, p, w) == First({q \in p..Len(t) : HasAt(t, q, w)})

\* ALLOWED_WORDS (improved_checker.py:12-37): declared, never consulted.
ALLOWED_WORDS == {
    "aptos", "blockchain", "cryptocurrency", "crypto", "dapp", "dapps",
    "sdk", "api", "cli", "json", "yaml", "toml", "typescript", "javascript",
    "webassembly", "wasm", "bcs", "move", "sui", "diem", "solana", "ethereum",
    "testnet", "mainnet", "devnet", "fungible", "nft", "nfts", "validator",
    "validators", "bytecode", "merkle", "parallelization", "serialization",
    "deserialization", "struct", "structs", "enum", "enums", "async", "await",
    "impl", "mut", "bool", "u8", "u16", "u32", "u64", "u128", "u256", "addr",
    "signer", "vec", "repo", "config", "todo", "hashmap", "stdlib", "framework",
    "cmdline", "github", "git", "npm", "yarn", "cargo", "rust", "linux", "macos",
    "ubuntu", "homebrew", "gui", "url", "urls", "http", "https", "www",
    "localhost", "dev", "src", "bin", "etc", "usr", "var", "tmp", "md", "txt",
    "py", "js", "ts", "rs", "go", "cpp", "hpp", "html", "css", "scss", "yml",
    "blockstm", "rocksdb", "movestdlib", "aptosstdlib", "aptosstd", "tablewithlength",
    "mystruct",
    "reference", "references", "dependencies", "directly", "friendly", "llms",
    "syntax", "anything", "mostly", "constraints", "constraint", "apply",
    "accordingly", "assembly", "instructions", "entry", "correctly", "smoothly",
    "cryptographic", "represented", "exactly", "length", "lengths", "simply",
    "empty", "demonstrates", "demonstrated", "experience", "thoroughly", "system",
    "systems", "currently", "quickly", "python", "style", "algorithms", "constructs",
    "efficiently", "methods", "slightly", "frequently", "highly", "especiallly"}

\* KNOWN_MISSPELLINGS (improved_checker.py:40-57)
KNOWN_MISSPELLINGS ==
    ("alot" :> "a lot") @@ ("occurence" :> "occurrence") @@ ("recieve" :> "receive") @@
    ("seperate" :> "separate") @@ ("definately" :> "definitely") @@
    ("accomodate" :> "accommodate") @@ ("acheive" :> "achieve") @@
    ("beleive" :> "believe") @@ ("concensus" :> "consensus") @@
    ("publically" :> "publicly") @@ ("neccessary" :> "necessary") @@
    ("priviledge" :> "privilege") @@ ("occured" :> "occurred") @@
    ("begining" :> "beginning") @@ ("commited" :> "committed") @@
    ("especiallly" :> "especially")

\* ---- extract_text_from_markdown (improved_checker.py:59-76) ----------------

Fence == <<BT, BT, BT>>

\* re.sub(r'```.*?```', '', content, flags=re.DOTALL)
RECURSIVE StripFences(_, _)
StripFences(t, i) ==
    LET s == First({p \in i..Len(t) : HasAt(t, p, Fence) /\ FindFrom(t, p + 3, Fence) # 0})
    IN  IF s = 0 THEN Sub(t, i, Len(t))
        ELSE Sub(t, i, s - 1) \o StripFences(t, FindFrom(t, s + 3, Fence) + 3)

\* re.sub(r'`[^`]*`', '', content)
RECURSIVE StripInline(_, _)
StripInline(t, i) ==
    LET s == First({p \in i..Len(t) : t[p] = BT /\ FindFrom(t, p + 1, <<BT>>) # 0})
    IN  IF s = 0 THEN Sub(t, i, Len(t))
        ELSE Sub(t, i, s - 1) \o StripInline(t, FindFrom(t, s + 1, <<BT>>) + 1)

\* '\[([^\]]*)\]\([^)]*\)' tried at the '[' at position i: the positions of
\* its ']' and of its ')' (<<0, 0>> when it does not match).
LinkAt(t, i) ==
    LET j == FindFrom(t, i + 1, <<"]">>)
    IN  IF At(t, i) # "[" \/ j = 0 \/ At(t, j + 1) # "(" THEN <<0, 0>>
        ELSE LET k == FindFrom(t, j + 2, <<")">>)
             IN  IF k = 0 THEN <<0, 0>> ELSE <<j, k>>

\* re.sub(r'\[([^\]]*)\]\([^)]*\)', r'\1', content)
RECURSIVE UnwrapLinks(_, _)
UnwrapLinks(t, i) ==
    LET s == First({p \in i..Len(t) : LinkAt(t, p)[1] # 0})
    IN  IF s = 0 THEN Sub(t, i, Len(t))
        ELSE Sub(t, i, s - 1) \o Sub(t, s + 1, LinkAt(t, s)[1] - 1)
                 \o UnwrapLinks(t, LinkAt(t, s)[2] + 1)

\* re.sub(r'!\[([^\]]*)\]\([^)]*\)', r'\1', content)
RECURSIVE UnwrapImages(_, _)
UnwrapImages(t, i) ==
    LET s == First({p \in i..Len(t) : t[p] = "!" /\ LinkAt(t, p + 1)[1] # 0})
    IN  IF s = 0 THEN Sub(t, i, Len(t))
        ELSE Sub(t, i, s - 1) \o Sub(t, s + 2, LinkAt(t, s + 1)[1] - 1)
                 \o UnwrapImages(t, LinkAt(t, s + 1)[2] + 1)

\* The first position >= p that holds no '#'.
RECURSIVE SkipHashes(_, _)
SkipHashes(t, p) == IF At(t, p) = "#" THEN SkipHashes(t, p + 1) ELSE p

\* The first position >= p that holds no whitespace.
RECURSIVE SkipSpaces(_, _)
SkipSpaces(t, p) == IF IsSpace(At(t, p)) THEN SkipSpaces(t, p + 1) ELSE p

\* re.sub(r'^#+\s*', '', content, flags=re.MULTILINE)
RECURSIVE StripHeadings(_, _)
StripHeadings(t, i) ==
    LET s == First({p \in i..Len(t) : AtLineStart(t, p) /\ t[p] = "#"})
    IN  IF s = 0 THEN Sub(t, i, Len(t))
        ELSE Sub(t, i, s - 1) \o StripHeadings(t, SkipSpaces(t, SkipHashes(t, s)))

\* d([^x]+)d tried at position i, d a run of the character x: the position of
\* the closing d (0 when it does not match).
EmphasisAt(t, i, d) ==
    LET j == FindFrom(t, i + Len(d), <<d[1]>>)
    IN  IF HasAt(t, i, d) /\ j > i + Len(d) /\ HasAt(t, j, d) THEN j ELSE 0

\* re.sub(d + r'([^x]+)' + d, r'\1', content) for the four emphasis markers.
RECURSIVE Unwrap(_, _, _)
Unwrap(t, i, d) ==
    LET s == First({p \in i..Len(t) : EmphasisAt(t, p, d) # 0})
    IN  IF s = 0 THEN Sub(t, i, Len(t))
        ELSE Sub(t, i, s - 1) \o Sub(t, s + Len(d), EmphasisAt(t, s, d) - 1)
                 \o Unwrap(t, EmphasisAt(t, s, d) + Len(d), d)

\* Lines 62-63: the two code-removing substitutions.
RemoveCode(content) == StripInline(StripFences(content, 1), 1)

\* Lines 66-74: links, images, headings, emphasis.
RemoveMarkup(c) ==
    LET links    == UnwrapLinks(c, 1)
        images   == UnwrapImages(links, 1)
        headings == StripHeadings(images, 1)
        bold     == Unwrap(headings, 1, <<"*", "*">>)
        italic   == Unwrap(bold, 1, <<"*">>)
        ubold    == Unwrap(italic, 1, <<"_", "_">>)
    IN  Unwrap(ubold, 1, <<"_">>)

extract_text_from_markdown(content) == RemoveMarkup(RemoveCode(content))

\* ---- check_spelling (improved_checker.py:78-87) ---------------------------

\* The last position of the run of letters that starts at i.
RECURSIVE LetterRunEnd(_, _)
LetterRunEnd(t, i) == IF IsLetter(At(t, i + 1)) THEN LetterRunEnd(t, i + 1) ELSE i

\* re.findall(r'\b[A-Za-z]+\b', t): the matches, left to right.
RECURSIVE FindWords(_, _)
FindWords(t, i) ==
    LET s == First({p \in i..Len(t) : /\ IsLetter(t[p])
                                      /\ Boundary(t, p)
                                      /\ Boundary(t, LetterRunEnd(t, p) + 1)})
    IN  IF s = 0 THEN <<>>
        ELSE <<Str(Sub(t, s, LetterRunEnd(t, s)))>> \o FindWords(t, LetterRunEnd(t, s) + 1)

\* The orders in which a set can be iterated: every arrangement of S.
Orderings(S) ==
    {s \in [1..Cardinality(S) -> S] : \A a, b \in 1..Cardinality(S) : a # b => s[a] # s[b]}

\* Mutant of Flagged: the allowed words are filtered out of the findings.
Flagged_SkipAllowed(words) ==
    {w \in words : w \in DOMAIN KNOWN_MISSPELLINGS /\ w \notin ALLOWED_WORDS}

\* Lines 83-84: the words of set(words) that are keys of the table.
Flagged(words) == {w \in words : w \in DOMAIN KNOWN_MISSPELLINGS}

\* check_spelling(text): the lists it can return; set(words) is iterated in an
\* order the language does not fix.
check_spelling(t) ==
    LET words == FindWords(Lower(t), 1)
        found == Flagged({words[k] : k \in 1..Len(words)})
    IN  {[k \in 1..Len(o) |-> <<o[k], KNOWN_MISSPELLINGS[o[k]]>>] : o \in Orderings(found)}

\* ---- check_grammar (improved_checker.py:89-111) ---------------------------

\* The threshold of line 108.
PassiveThreshold == 20

\* \bw\b at position i, letter case ignored.
WordAt(t, i, w) == Boundary(t, i) /\ HasAtCI(t, i, w) /\ Boundary(t, i + Len(w))

\* re.finditer of the literal pattern \bw\b: the matched texts, left to right.
RECURSIVE LiteralMatches(_, _, _)
LiteralMatches(t, i, w) ==
    LET s == First({p \in i..Len(t) : WordAt(t, p, w)})
    IN  IF s = 0 THEN <<>>
        ELSE <<Str(Sub(t, s, s + Len(w) - 1))>> \o LiteralMatches(t, s + Len(w), w)

\* The last position of the line that holds position p - 1 (p - 1 when the
\* line ends there).
RECURSIVE LineEnd(_, _)
LineEnd(t, p) == IF Dot(At(t, p)) THEN LineEnd(t, p + 1) ELSE p - 1

\* '.*\b(alts)\b' tried at position a: the last position of the match, '.*'
\* taking as much of the line as it can (0 when it does not match).
SpanEnd(t, a, alts) ==
    LET starts == {p \in a..LineEnd(t, a) : \E w \in alts : WordAt(t, p, w)}
    IN  IF starts = {} THEN 0
        ELSE LET p == CHOOSE q \in starts : \A r \in starts : r <= q
                 w == CHOOSE x \in alts : WordAt(t, p, x)
             IN  p + Len(w) - 1

\* re.finditer of '\bfirst\b.*\b(alts)\b': the matched texts, left to right.
RECURSIVE SpanMatches(_, _, _, _)
SpanMatches(t, i, first, alts) ==
    LET s == First({p \in i..Len(t) : /\ WordAt(t, p, first)
                                      /\ SpanEnd(t, p + Len(first), alts) # 0})
    IN  IF s = 0 THEN <<>>
        ELSE <<Str(Sub(t, s, SpanEnd(t, s + Len(first), alts)))>>
                 \o SpanMatches(t, SpanEnd(t, s + Len(first), alts) + 1, first, alts)

ItsOwn == <<"i", "t", "'", "s", " ", "o", "w", "n">>
Alot == <<"a", "l", "o", "t">>
Loose == <<"l", "o", "o", "s", "e">>
LooseObjects == {<<"s", "o", "m", "e", "t", "h", "i", "n", "g">>, <<"i", "t">>, <<"t", "h", "e", "m">>}
ThenWord == <<"t", "h", "e", "n">>
ThenComparatives == {<<"b", "e", "t", "t", "e", "r">>, <<"m", "o", "r", "e">>, <<"l", "e", "s", "s">>}
Auxiliaries == {<<"i", "s">>, <<"a", "r", "e">>, <<"w", "a", "s">>, <<"w", "e", "r", "e">>, <<"b", "e">>, <<"b", "e", "e", "n">>, <<"b", "e", "i", "n", "g">>}

\* Lines 94-104: the findings of the four patterns, in the order of the list.
PatternIssues(content) ==
    LET its   == LiteralMatches(content, 1, ItsOwn)
        alot  == LiteralMatches(content, 1, Alot)
        loose == SpanMatches(content, 1, Loose, LooseObjects)
        then  == SpanMatches(content, 1, ThenWord, ThenComparatives)
    IN  [k \in 1..Len(its) |->
            <<its[k], "its own", "Possessive 'its' doesn't use an apostrophe">>]
        \o [k \in 1..Len(alot) |-> <<alot[k], "a lot", "Should be two words">>]
        \o [k \in 1..Len(loose) |->
            <<loose[k], "lose", "Use 'lose' not 'loose' for the verb">>]
        \o [k \in 1..Len(then) |-> <<then[k], "than", "Use 'than' for comparisons">>]

\* The last position of the run of word characters that starts at p.
RECURSIVE WordRunEnd(_, _)
WordRunEnd(t, p) == IF IsWordChar(At(t, p + 1)) THEN WordRunEnd(t, p + 1) ELSE p

\* '\b(is|are|was|were|be|been|being)\s+\w*ed\b' tried at position i: the last
\* position of the match (0 when it does not match).
PassiveAt(t, i) ==
    IF ~Boundary(t, i) THEN 0
    ELSE LET auxs == {w \in Auxiliaries : HasAtCI(t, i, w) /\ IsSpace(At(t, i + Len(w)))}
         IN  IF auxs = {} THEN 0
             ELSE LET w == CHOOSE x \in auxs : TRUE
                      p == SkipSpaces(t, i + Len(w))
                      r == WordRunEnd(t, p)
                  IN  IF IsWordChar(At(t, p)) /\ HasAtCI(t, r - 1, <<"e", "d">>) /\ r - 1 >= p
                      THEN r ELSE 0

\* len(re.findall(...)) of line 107.
RECURSIVE PassiveCount(_, _)
PassiveCount(t, i) ==
    LET s == First({p \in i..Len(t) : PassiveAt(t, p) # 0})
    IN  IF s = 0 THEN 0 ELSE 1 + PassiveCount(t, PassiveAt(t, s) + 1)

\* f'{n}': the decimal digits of n.
RECURSIVE Decimal(_)
Decimal(k) == IF k < 10 THEN DigitSeq[k + 1]
              ELSE Decimal(k \div 10) \o DigitSeq[(k % 10) + 1]

\* Mutant of PassiveIssues: the threshold test is >= instead of >.
PassiveIssues_AtThreshold(content) ==
    LET c == PassiveCount(content, 1)
    IN  IF c >= PassiveThreshold
        THEN <<<<"High passive voice", Decimal(c) \o " instances",
                 "Consider using more active voice">>>>
        ELSE <<>>

\* Lines 107-109.
PassiveIssues(content) ==
    LET c == PassiveCount(content, 1)
    IN  IF c > PassiveThreshold
        THEN <<<<"High passive voice", Decimal(c) \o " instances",
                 "Consider using more active voice">>>>
        ELSE <<>>

check_grammar(content) == PatternIssues(content) \o PassiveIssues(content)

\* ---- check_file (improved_checker.py:113-126) -----------------------------

\* The pairs (spelling_errors, grammar_issues) check_file can return for a
\* file; a file that cannot be opened or decoded raises inside the try.
check_file(f) ==
    IF ~f.readable THEN {[spelling |-> <<>>, grammar |-> <<>>]}
    ELSE {[spelling |-> sp, grammar |-> check_grammar(f.content)] :
             sp \in check_spelling(extract_text_from_markdown(f.content))}

\* ---- The documents the checker is run on ---------------------------------

\* A segment of a document: its characters, and the words of it that lie
\* outside every code span and code block.
\* a misspelling in prose
SegMiss == [chars |-> <<"r", "e", "c", "i", "e", "v", "e">>,
            prose |-> {"recieve"}]
\* one misspelling twice, in two letter cases
SegCases == [chars |-> <<"O", "c", "c", "u", "r", "e", "d", " ", "O", "C", "C", "U", "R", "E", "D">>,
             prose |-> {"occured"}]
\* a misspelling in an inline code span
SegInline == [chars |-> <<BT, "s", "e", "p", "e", "r", "a", "t", "e", BT>>,
              prose |-> {}]
\* a misspelling in an inline code span delimited by two backticks
SegDouble == [chars |-> <<BT, BT, "b", "e", "g", "i", "n", "i", "n", "g", BT, BT>>,
              prose |-> {}]
\* a misspelling in a fenced code block
SegFence == [chars |-> <<BT, BT, BT, LF, "c", "o", "m", "m", "i", "t", "e", "d", LF, BT, BT, BT>>,
             prose |-> {}]
\* an allowed word, correctly spelled
SegAllowed == [chars |-> <<"v", "a", "l", "i", "d", "a", "t", "o", "r">>,
               prose |-> {"validator"}]
\* a word of both tables
SegBoth == [chars |-> <<"e", "s", "p", "e", "c", "i", "a", "l", "l", "l", "y">>,
            prose |-> {"especiallly"}]
\* a misspelling run together with a digit
SegDigit == [chars |-> <<"p", "u", "b", "l", "i", "c", "a", "l", "l", "y", "2">>,
             prose |-> {}]
\* a misspelling that is a grammar pattern too
SegAlot == [chars |-> <<"a", "l", "o", "t">>,
            prose |-> {"alot"}]
\* a link: its text is prose, its target is dropped
SegLink == [chars |-> <<"[", "a", "c", "h", "e", "i", "v", "e", "]", "(", "o", "c", "c", "u", "r", "e", "n", "c", "e", ")">>,
            prose |-> {"acheive"}]
\* a heading in bold
SegBold == [chars |-> <<"#", " ", "*", "*", "b", "e", "l", "e", "i", "v", "e", "*", "*">>,
            prose |-> {"beleive"}]
\* one passive construction
SegPassive == [chars |-> <<"W", "a", "s", " ", " ", "u", "s", "E", "D">>,
               prose |-> {"was", "used"}]
\* an -ed word after a word that only ends like an auxiliary
SegDecoy == [chars |-> <<"t", "h", "i", "s", " ", "n", "e", "e", "d", "e", "d">>,
             prose |-> {"this", "needed"}]
\* the comparison pattern
SegThen == [chars |-> <<"t", "h", "e", "n", " ", "m", "o", "r", "e">>,
            prose |-> {"then", "more"}]
\* the possessive pattern
SegIts == [chars |-> <<"i", "t", "'", "s", " ", "o", "w", "n">>,
           prose |-> {"it", "s", "own"}]
\* the loose/lose pattern
SegLoose == [chars |-> <<"l", "o", "o", "s", "e", " ", "t", "h", "e", "m", " ", "i", "t">>,
             prose |-> {"loose", "them", "it"}]

Segments == {SegMiss, SegCases, SegInline, SegDouble, SegFence, SegAllowed,
             SegBoth, SegDigit, SegAlot, SegLink, SegBold, SegPassive,
             SegDecoy, SegThen, SegIts, SegLoose}

\* The unit a long passive document repeats.
PassiveUnit == <<"w", "a", "s", " ", "u", "s", "e", "d">>

Separators == {" ", LF}

MaxSegs == 2
MaxReps == 22

RECURSIVE Repeat(_, _, _)
Repeat(unit, sep, k) == IF k = 0 THEN <<>> ELSE unit \o <<sep>> \o Repeat(unit, sep, k - 1)

\* The content of a document: PassiveUnit reps times, then its segments, all
\* separated by sep.
Render(d) ==
    Repeat(PassiveUnit, d.sep, d.reps)
        \o Join([k \in 1..Len(d.segs) |-> d.segs[k].chars], <<d.sep>>)

\* The documents: up to MaxSegs segments, and the documents of at most one
\* segment after PassiveThreshold - 1 .. MaxReps passive constructions.
Documents ==
    {[segs |-> sg, sep |-> sp, reps |-> 0, readable |-> TRUE] :
        sg \in SeqsUpTo(Segments, MaxSegs), sp \in Separators}
    \cup {[segs |-> sg, sep |-> sp, reps |-> r, readable |-> TRUE] :
            sg \in SeqsUpTo(Segments, 1), sp \in Separators,
            r \in (PassiveThreshold - 1)..MaxReps}
    \cup {[segs |-> <<>>, sep |-> " ", reps |-> 0, readable |-> FALSE]}

VARIABLES
    file,       \* the bytes of the glossary file on disk
    linesep,    \* os.linesep of the platform
    text,       \* text      (convert_glossary.py:11)
    new_text,   \* new_text  (convert_glossary.py:14)
    n,          \* n         (convert_glossary.py:14)
    stdout,     \* the counts printed, one per 'Converted {n} terms.' line
    pc,         \* the statement the current run is at
    run,        \* the number of the current run of the script
    orig,       \* history: the file as it was before the first run
    \* check_file of the document checker
    doc,              \* the file check_file is called on
    content,          \* content          (improved_checker.py:117)
    ptext,            \* text             (improved_checker.py:119)
    spelling_errors,  \* spelling_errors  (improved_checker.py:120)
    grammar_issues,   \* grammar_issues   (improved_checker.py:121)
    fpc,              \* the statement check_file is at
    \* main of the document checker
    md_files,              \* md_files               (improved_checker.py:133)
    idx,                   \* the position of the loop of line 141 in md_files
    total_files,           \* total_files            (improved_checker.py:134)
    files_with_issues,     \* files_with_issues      (improved_checker.py:135)
    total_spelling_errors, \* total_spelling_errors  (improved_checker.py:136)
    total_grammar_issues,  \* total_grammar_issues   (improved_checker.py:137)
    all_issues,            \* all_issues             (improved_checker.py:139)
    out,                   \* the lines the checker has printed
    mpc                    \* the statement main is at

convVars == <<file, linesep, text, new_text, n, stdout, pc, run, orig>>
fileVars == <<doc, content, ptext, spelling_errors, grammar_issues, fpc>>
mainVars == <<md_files, idx, total_files, files_with_issues, total_spelling_errors,
              total_grammar_issues, all_issues, mpc>>
vars == <<convVars, fileVars, mainVars, out>>

\* The state of a tool that is not running.
ConverterIdle ==
    /\ file = <<>> /\ linesep = <<LF>> /\ text = <<>> /\ new_text = <<>> /\ n = 0
    /\ stdout = <<>> /\ pc = "idle" /\ run = 0 /\ orig = <<>>

FileIdle ==
    /\ doc = [segs |-> <<>>, sep |-> " ", reps |-> 0, readable |-> TRUE]
    /\ content = <<>> /\ ptext = <<>> /\ spelling_errors = <<>> /\ grammar_issues = <<>>
    /\ fpc = "idle"

MainIdle ==
    /\ md_files = <<>> /\ idx = 0 /\ total_files = 0 /\ files_with_issues = 0
    /\ total_spelling_errors = 0 /\ total_grammar_issues = 0 /\ all_issues = <<>>
    /\ mpc = "idle"

Init ==
    /\ file \in GlossaryFiles
    /\ orig = file
    /\ linesep \in LineEndings
    /\ text = <<>>
    /\ new_text = <<>>
    /\ n = 0
    /\ stdout = <<>>
    /\ pc = "read"
    /\ run = 1
    /\ FileIdle /\ MainIdle /\ out = <<>>

\* convert_glossary.py:11
Read ==
    /\ pc = "read"
    /\ text' = ReadText(file)
    /\ pc' = "subn"
    /\ UNCHANGED <<file, linesep, new_text, n, stdout, run, orig>>
    /\ UNCHANGED <<fileVars, mainVars, out>>

\* convert_glossary.py:11, read_text raising (missing or undecodable file)
ReadFail ==
    /\ pc = "read"
    /\ pc' = "failed"
    /\ UNCHANGED <<file, linesep, text, new_text, n, stdout, run, orig>>
    /\ UNCHANGED <<fileVars, mainVars, out>>

\* convert_glossary.py:13-14
Substitute ==
    /\ pc = "subn"
    /\ new_text' = Subn(text)[1]
    /\ n' = Subn(text)[2]
    /\ pc' = "print"
    /\ UNCHANGED <<file, linesep, text, stdout, run, orig>>
    /\ UNCHANGED <<fileVars, mainVars, out>>

\* convert_glossary.py:16
Report ==
    /\ pc = "print"
    /\ stdout' = Append(stdout, n)
    /\ pc' = "write"
    /\ UNCHANGED <<file, linesep, text, new_text, n, run, orig>>
    /\ UNCHANGED <<fileVars, mainVars, out>>

\* convert_glossary.py:17
Write ==
    /\ pc = "write"
    /\ file' = WriteText(new_text, linesep)
    /\ pc' = "done"
    /\ UNCHANGED <<linesep, text, new_text, n, stdout, run, orig>>
    /\ UNCHANGED <<fileVars, mainVars, out>>

\* convert_glossary.py:17, write_text failing to open the file for writing
WriteFail ==
    /\ pc = "write"
    /\ pc' = "failed"
    /\ UNCHANGED <<file, linesep, text, new_text, n, stdout, run, orig>>
    /\ UNCHANGED <<fileVars, mainVars, out>>

\* The script is run again on the file the previous run wrote.
RunAgain ==
    /\ pc = "done"
    /\ run < MaxRuns
    /\ run' = run + 1
    /\ pc' = "read"
    /\ text' = <<>>
    /\ new_text' = <<>>
    /\ n' = 0
    /\ UNCHANGED <<file, linesep, stdout, orig>>
    /\ UNCHANGED <<fileVars, mainVars, out>>

Next == Read \/ ReadFail \/ Substitute \/ Report \/ Write \/ WriteFail \/ RunAgain

Spec == Init /\ [][Next]_vars

(***************************************************************************)
(* check_file, statement by statement, on one document.                    *)
(***************************************************************************)
InitFile ==
    /\ doc \in Documents
    /\ content = <<>> /\ ptext = <<>> /\ spelling_errors = <<>> /\ grammar_issues = <<>>
    /\ fpc = "open"
    /\ out = <<>>
    /\ ConverterIdle /\ MainIdle

\* improved_checker.py:116-117
OpenAndRead ==
    /\ fpc = "open"
    /\ doc.readable
    /\ content' = Render(doc)
    /\ fpc' = "extract"
    /\ UNCHANGED <<doc, ptext, spelling_errors, grammar_issues, out>>
    /\ UNCHANGED <<convVars, mainVars>>

\* improved_checker.py:124-126, the open or the read raising
OpenFails ==
    /\ fpc = "open"
    /\ ~doc.readable
    /\ out' = Append(out, [kind |-> "error", file |-> 0, num |-> 0, item |-> <<>>])
    /\ spelling_errors' = <<>>
    /\ grammar_issues' = <<>>
    /\ fpc' = "returned"
    /\ UNCHANGED <<doc, content, ptext>>
    /\ UNCHANGED <<convVars, mainVars>>

\* improved_checker.py:119
ExtractText ==
    /\ fpc = "extract"
    /\ ptext' = extract_text_from_markdown(content)
    /\ fpc' = "spelling"
    /\ UNCHANGED <<doc, content, spelling_errors, grammar_issues, out>>
    /\ UNCHANGED <<convVars, mainVars>>

\* improved_checker.py:120
CheckSpelling ==
    /\ fpc = "spelling"
    /\ \E sp \in check_spelling(ptext) : spelling_errors' = sp
    /\ fpc' = "grammar"
    /\ UNCHANGED <<doc, content, ptext, grammar_issues, out>>
    /\ UNCHANGED <<convVars, mainVars>>

\* improved_checker.py:121-123
CheckGrammar ==
    /\ fpc = "grammar"
    /\ grammar_issues' = check_grammar(content)
    /\ fpc' = "returned"
    /\ UNCHANGED <<doc, content, ptext, spelling_errors, out>>
    /\ UNCHANGED <<convVars, mainVars>>

NextFile == OpenAndRead \/ OpenFails \/ ExtractText \/ CheckSpelling \/ CheckGrammar

SpecFile == InitFile /\ [][NextFile]_vars

(***************************************************************************)
(* main of the document checker (improved_checker.py:128-195).             *)
(***************************************************************************)
MaxFiles == 3

\* The files Path('.').glob('**/*.md') can yield; the path of a file is its
\* position in md_files.
Prose(sg) == [segs |-> sg, sep |-> " ", reps |-> 0, readable |-> TRUE]
Unreadable == [segs |-> <<>>, sep |-> " ", reps |-> 0, readable |-> FALSE]

MainDocuments == {Prose(<<SegAllowed>>), Prose(<<SegMiss>>), Prose(<<SegMiss, SegCases>>),
                  Prose(<<SegAlot>>), Prose(<<SegThen>>), Unreadable}

\* The file check_file reads: whether it can be read, and what it holds.
FileOf(d) == [readable |-> d.readable, content |-> Render(d)]

\* A printed line: what it is, the file it names (0: none), the number it
\* carries, and the finding it shows.
Line(kind, f, num, item) == [kind |-> kind, file |-> f, num |-> num, item |-> item]

\* Lines 153-165: the listing of a file with issues.
IssueListing(f, r) ==
    <<Line("issues", f, 0, <<>>)>>
    \o [k \in 1..Len(r.spelling) |-> Line("spelling", f, 0, r.spelling[k])]
    \o [k \in 1..Len(r.grammar) |-> Line("grammar", f, 0, r.grammar[k])]

\* Lines 182-190: the re-listing of one entry of all_issues.
DetailOf(e) ==
    <<Line("detail", e.file, 0, <<>>)>>
    \o [k \in 1..Len(e.spelling) |-> Line("detail spelling", e.file, 0, e.spelling[k])]
    \o [k \in 1..Len(e.grammar) |->
            Line("detail grammar", e.file, 0, <<e.grammar[k][1], e.grammar[k][3]>>)]

\* Lines 181-190: the loop over all_issues.
RECURSIVE DetailListing(_)
DetailListing(entries) ==
    IF Len(entries) = 0 THEN <<>>
    ELSE DetailOf(Head(entries)) \o DetailListing(Tail(entries))

\* Mutant of AddSpelling: the total counts files, not errors.
AddSpelling_PerFile(total, errors) == IF Len(errors) > 0 THEN total + 1 ELSE total

\* Lines 155-159: total_spelling_errors += len(spelling_errors)
AddSpelling(total, errors) == total + Len(errors)

\* Lines 161-165: total_grammar_issues += len(grammar_issues)
AddGrammar(total, issues) == total + Len(issues)

\* Mutant of Outcome: a file that cannot be read is returned as a finding.
Outcome_ReportsFailure(d) ==
    IF d.readable THEN check_file(FileOf(d))
    ELSE {[spelling |-> <<>>,
           grammar |-> <<<<"Error reading", "", "file could not be read">>>>]}

\* Line 142: what check_file returns for the file.
Outcome(d) == check_file(FileOf(d))

InitMain ==
    /\ md_files \in SeqsUpTo(MainDocuments, MaxFiles)
    /\ idx = 0 /\ total_files = 0 /\ files_with_issues = 0
    /\ total_spelling_errors = 0 /\ total_grammar_issues = 0 /\ all_issues = <<>>
    /\ mpc = "start"
    /\ out = <<>>
    /\ ConverterIdle /\ FileIdle

\* improved_checker.py:130-139
Begin ==
    /\ mpc = "start"
    /\ out' = Append(out, Line("banner", 0, 0, <<>>))
    /\ total_files' = Len(md_files)
    /\ files_with_issues' = 0
    /\ total_spelling_errors' = 0
    /\ total_grammar_issues' = 0
    /\ all_issues' = <<>>
    /\ idx' = 1
    /\ mpc' = "loop"
    /\ UNCHANGED md_files
    /\ UNCHANGED <<convVars, fileVars>>

\* improved_checker.py:141-167, one turn of the loop, check_file included
CheckNextFile ==
    /\ mpc = "loop"
    /\ idx <= Len(md_files)
    /\ \E r \in Outcome(md_files[idx]) :
          LET failure == IF md_files[idx].readable THEN <<>>
                         ELSE <<Line("error", idx, 0, <<>>)>>
          IN  IF Len(r.spelling) > 0 \/ Len(r.grammar) > 0
              THEN /\ files_with_issues' = files_with_issues + 1
                   /\ all_issues' = Append(all_issues,
                          [file |-> idx, spelling |-> r.spelling, grammar |-> r.grammar])
                   /\ out' = out \o failure \o IssueListing(idx, r)
                   /\ total_spelling_errors' = AddSpelling(total_spelling_errors, r.spelling)
                   /\ total_grammar_issues' = AddGrammar(total_grammar_issues, r.grammar)
              ELSE /\ out' = out \o failure \o <<Line("clean", idx, 0, <<>>)>>
                   /\ UNCHANGED <<files_with_issues, all_issues, total_spelling_errors,
                                  total_grammar_issues>>
    /\ idx' = idx + 1
    /\ UNCHANGED <<md_files, total_files, mpc>>
    /\ UNCHANGED <<convVars, fileVars>>

\* improved_checker.py:170-176
Summary ==
    /\ mpc = "loop"
    /\ idx > Len(md_files)
    /\ out' = out \o <<Line("summary", 0, 0, <<>>),
                       Line("total files", 0, total_files, <<>>),
                       Line("with issues", 0, files_with_issues, <<>>),
                       Line("without issues", 0, total_files - files_with_issues, <<>>),
                       Line("spelling errors", 0, total_spelling_errors, <<>>),
                       Line("grammar concerns", 0, total_grammar_issues, <<>>)>>
    /\ mpc' = "details"
    /\ UNCHANGED <<md_files, idx, total_files, files_with_issues, total_spelling_errors,
                   total_grammar_issues, all_issues>>
    /\ UNCHANGED <<convVars, fileVars>>

\* improved_checker.py:179-195
Details ==
    /\ mpc = "details"
    /\ out' = out
              \o (IF files_with_issues > 0
                  THEN <<Line("detailed", 0, 0, <<>>)>> \o DetailListing(all_issues)
                  ELSE <<>>)
              \o (IF files_with_issues = 0
                  THEN <<Line("all good", 0, 0, <<>>)>>
                  ELSE <<Line("need attention", 0, files_with_issues, <<>>)>>)
    /\ mpc' = "done"
    /\ UNCHANGED <<md_files, idx, total_files, files_with_issues, total_spelling_errors,
                   total_grammar_issues, all_issues>>
    /\ UNCHANGED <<convVars, fileVars>>

NextMain == Begin \/ CheckNextFile \/ Summary \/ Details

SpecMain == InitMain /\ [][NextMain]_vars

(***************************************************************************)
(* Claims about the glossary converter.                                    *)
(***************************************************************************)

\* C1: every well-formed block of the input (a line **T** followed by a line
\* ': D') stands in the written file as the line '## T' followed by the line
\* 'D', and the count printed is the number of well-formed blocks of the input.
C1_BlocksConverted ==
    pc = "done" =>
        LET L == LinesOf(text)
            O == LinesOf(ReadText(file))
        IN  /\ Len(O) = Len(L)
            /\ \A k \in BlocksOf(L) : /\ O[k] = Heading(TermOf(L[k]))
                                      /\ O[k + 1] = DefOf(L[k + 1])
            /\ stdout[run] = Cardinality(BlocksOf(L))

C1_Witness ==
    /\ pc = "done"
    /\ run = 1
    /\ Cardinality(BlocksOf(LinesOf(text))) = 2
    /\ stdout[run] = 2

\* C2 (as claimed): text outside a well-formed block is written back byte for
\* byte; an input without a well-formed block leaves the file identical to the
\* input and reports 0.
C2_UnchangedOutsideBlocks ==
    (pc = "done" /\ run = 1) =>
        LET L == LinesOf(ReadText(orig))
        IN  BlocksOf(L) = {} => (file = orig /\ stdout[1] = 0)

\* C8 (as claimed): the count is printed only after the file has been written:
\* a run that has printed its count has completed its write.
C8_PrintedAfterWrite == Len(stdout) >= run => pc = "done"

\* C10 (as claimed): the captured term never extends across the closing ** of
\* the first bold span of the term line.
HasStarStar(w) == \E k \in 1..(Len(w) - 1) : w[k] = "*" /\ w[k + 1] = "*"

C10_TermStopsAtFirstBold ==
    pc = "print" =>
        LET ms == Matches(text, 1)
        IN  \A j \in 1..Len(ms) : ~HasStarStar(Sub(text, ms[j].ts, ms[j].te))

\* C10 (amended): the captured term is the whole of its line between the
\* leading ** and the ** that ends the line, inner ** included, and never
\* reaches the next line; the captured definition is the whole rest of the
\* following line after ': '.
C10_TermIsWholeLine ==
    pc = "print" =>
        LET ms == Matches(text, 1)
            L == LinesOf(text)
        IN  \A j \in 1..Len(ms) :
                LET k == LineNo(text, ms[j].s)
                IN  /\ AtLineStart(text, ms[j].s)
                    /\ Sub(text, ms[j].ts, ms[j].te) = TermOf(L[k])
                    /\ LineNo(text, ms[j].te) = k
                    /\ Sub(text, ms[j].ds, ms[j].de) = DefOf(L[k + 1])

C10_Witness ==
    /\ pc = "print"
    /\ n = 1
    /\ \E j \in 1..Len(Matches(text, 1)) :
          /\ HasStarStar(Sub(text, Matches(text, 1)[j].ts, Matches(text, 1)[j].te))
          /\ Len(Sub(text, Matches(text, 1)[j].ds, Matches(text, 1)[j].de)) > 1

\* C3 (as claimed): whatever the input, a second run on the output of the
\* first converts nothing.
C3_SecondRunConvertsNothing ==
    (run >= 2 /\ pc \in {"print", "write", "done"}) => n = 0

\* A well-formed block whose definition is itself a line **X** and is followed
\* by a line ': Y': its converted definition line opens a new block.
DefinitionReopens(b) ==
    LET L == LinesOf(ReadText(b))
    IN  \E k \in BlocksOf(L) : /\ IsTermLine(DefOf(L[k + 1]))
                               /\ k + 2 <= Len(L)
                               /\ IsDefLine(L[k + 2])

\* C3 (amended): unless the input holds a well-formed block whose definition
\* is itself of the form **X** and is followed by a line ': Y', a second run
\* on the output of the first reports 0 and leaves the file unchanged.
C3_SecondRunIdle ==
    [][(run >= 2 /\ ~DefinitionReopens(orig)) =>
           /\ (pc' \in {"print", "write", "done"} => n' = 0)
           /\ file' = file]_vars

C3_Witness ==
    /\ run = 2
    /\ pc = "done"
    /\ stdout = <<1, 0>>
    /\ ~DefinitionReopens(orig)

(***************************************************************************)
(* Claims about the document checker.                                      *)
(***************************************************************************)

\* The words of a document that lie outside every code span and code block.
ProseWords(d) == UNION {d.segs[k].prose : k \in 1..Len(d.segs)}
                     \cup (IF d.reps > 0 THEN {"was", "used"} ELSE {})

Reported == {spelling_errors[k][1] : k \in 1..Len(spelling_errors)}

\* C4 (as claimed): text inside a fenced code block or an inline code span
\* never contributes to the spelling findings: every word reported for a
\* document lies outside its code.
C4_CodeNotSpellChecked ==
    fpc \in {"grammar", "returned"} => Reported \subseteq ProseWords(doc)

\* The alphabetic words of a text, lowercased: its maximal runs of word
\* characters that hold letters only.
AlphabeticWords(t) ==
    {Str(Lower(Sub(t, a, WordRunEnd(t, a)))) : a \in
        {a \in 1..Len(t) : /\ IsWordChar(t[a])
                           /\ ~IsWordChar(At(t, a - 1))
                           /\ \A k \in a..WordRunEnd(t, a) : IsLetter(t[k])}}

PassiveStarts(t) ==
    {a \in 1..Len(t) :
        /\ ~IsWordChar(At(t, a - 1))
        /\ IsWordChar(t[a])
        /\ Lower(Sub(t, a, WordRunEnd(t, a))) \in Auxiliaries
        /\ IsSpace(At(t, WordRunEnd(t, a) + 1))
        /\ LET p == SkipSpaces(t, WordRunEnd(t, a) + 1)
               w == Lower(Sub(t, p, WordRunEnd(t, p)))
           IN  /\ IsWordChar(At(t, p))
               /\ Len(w) >= 2
               /\ w[Len(w) - 1] = "e"
               /\ w[Len(w)] = "d"}

HighPassive == {k \in 1..Len(grammar_issues) : grammar_issues[k][1] = "High passive voice"}

\* C6: with c the number of passive constructions of the content, check_grammar
\* emits exactly one 'High passive voice' finding, carrying c, when c > 20, and
\* none when c <= 20.
C6_PassiveThreshold ==
    fpc = "returned" /\ doc.readable =>
        LET c == Cardinality(PassiveStarts(content))
        IN  IF c > 20
            THEN /\ Cardinality(HighPassive) = 1
                 /\ \A k \in HighPassive : grammar_issues[k][2] = Decimal(c) \o " instances"
            ELSE HighPassive = {}

C6_Witness ==
    /\ fpc = "returned"
    /\ Cardinality(PassiveStarts(content)) = 21
    /\ Cardinality(HighPassive) = 1
    /\ \A k \in HighPassive : grammar_issues[k][2] = "21 instances"

\* The files of md_files the loop has been through.
Processed == 1..(IF mpc = "start" THEN 0 ELSE idx - 1)

HasIssues(d) == \E r \in check_file(FileOf(d)) : Len(r.spelling) > 0 \/ Len(r.grammar) > 0
SpellingCount(d) == Len((CHOOSE r \in check_file(FileOf(d)) : TRUE).spelling)
GrammarCount(d) == Len((CHOOSE r \in check_file(FileOf(d)) : TRUE).grammar)

RECURSIVE SumOver(_, _)
SumOver(f, k) == IF k = 0 THEN 0 ELSE f[k] + SumOver(f, k - 1)

Listed(kinds, f) == \E k \in 1..Len(out) : out[k].kind \in kinds /\ out[k].file = f

TotalPrinted == {out[k].num : k \in {j \in 1..Len(out) : out[j].kind = "total files"}}

\* C7 (as claimed): a file that cannot be read is excluded from the per-file
\* listing and from the counts of the summary.
C7_FailedFileExcluded ==
    mpc = "done" =>
        /\ \A f \in 1..Len(md_files) :
               ~md_files[f].readable => ~Listed({"clean", "issues"}, f)
        /\ TotalPrinted = {Cardinality({f \in 1..Len(md_files) : md_files[f].readable})}

\* C7 (amended): a file that cannot be read gets a diagnostic naming it, the
\* run goes on through every remaining file, and the file adds nothing to
\* files_with_issues, to the two issue totals, to all_issues or to the detailed
\* re-listing; it is listed as a clean file and counted in the total of files
\* checked and in the files without issues.
C7_FailedFileCountsAsClean ==
    /\ \A f \in Processed :
          ~md_files[f].readable =>
              /\ Listed({"error"}, f)
              /\ Listed({"clean"}, f)
              /\ ~Listed({"issues", "spelling", "grammar", "detail",
                          "detail spelling", "detail grammar"}, f)
              /\ \A k \in 1..Len(all_issues) : all_issues[k].file # f
    /\ files_with_issues <= Cardinality({f \in Processed : md_files[f].readable})
    /\ mpc = "done" =>
          /\ Processed = 1..Len(md_files)
          /\ \A f \in 1..Len(md_files) : Listed({"clean", "issues"}, f)
          /\ TotalPrinted = {Len(md_files)}
          /\ \A k \in 1..Len(out) :
                out[k].kind = "without issues" =>
                    out[k].num >= Cardinality({f \in 1..Len(md_files) : ~md_files[f].readable})

C7_Witness ==
    /\ mpc = "done"
    /\ Len(md_files) = 3
    /\ ~md_files[1].readable
    /\ HasIssues(md_files[2])
    /\ ~HasIssues(md_files[3])
    /\ Listed({"error"}, 1)
    /\ files_with_issues = 1

\* The position of the heading of entry j in the detailed re-listing.
DetailStart(j) ==
    1 + SumOver([h \in 1..Len(all_issues) |->
                    1 + Len(all_issues[h].spelling) + Len(all_issues[h].grammar)], j - 1)

\* C9: all_issues has files_with_issues entries, one for each processed file
\* with at least one issue and none for a file without; the two totals are the
\* sums of the per-file counts; the detailed re-listing holds every accumulated
\* issue, file by file in processing order.
C9_Aggregation ==
    LET withIssues == {f \in Processed : HasIssues(md_files[f])}
        D == SelectSeq(out, LAMBDA l : l.kind \in {"detail", "detail spelling",
                                                   "detail grammar"})
    IN  /\ Len(all_issues) = files_with_issues
        /\ files_with_issues = Cardinality(withIssues)
        /\ {all_issues[k].file : k \in 1..Len(all_issues)} = withIssues
        /\ \A k \in 1..Len(all_issues) :
               /\ Len(all_issues[k].spelling) + Len(all_issues[k].grammar) > 0
               /\ k > 1 => all_issues[k - 1].file < all_issues[k].file
        /\ total_spelling_errors =
               SumOver([f \in 1..Len(md_files) |->
                           IF f \in Processed THEN SpellingCount(md_files[f]) ELSE 0],
                       Len(md_files))
        /\ total_grammar_issues =
               SumOver([f \in 1..Len(md_files) |->
                           IF f \in Processed THEN GrammarCount(md_files[f]) ELSE 0],
                       Len(md_files))
        /\ mpc = "done" =>
               /\ Len(D) = DetailStart(Len(all_issues) + 1) - 1
               /\ \A j \in 1..Len(all_issues) :
                      LET e == all_issues[j]
                          at == DetailStart(j)
                      IN  /\ D[at] = Line("detail", e.file, 0, <<>>)
                          /\ \A q \in 1..Len(e.spelling) :
                                 D[at + q] = Line("detail spelling", e.file, 0, e.spelling[q])
                          /\ \A q \in 1..Len(e.grammar) :
                                 D[at + Len(e.spelling) + q] =
                                     Line("detail grammar", e.file, 0,
                                          <<e.grammar[q][1], e.grammar[q][3]>>)

C9_Witness ==
    /\ mpc = "done"
    /\ Len(md_files) = 3
    /\ files_with_issues = 2
    /\ Len(all_issues) = 2
    /\ total_spelling_errors = 3
    /\ total_grammar_issues = 1
    /\ ~HasIssues(md_files[2])

=============================================================================
